---- MODULE Spec2Model ----
(***************************************************************************)
(* TransferBalance (practice 4): a balance transfer between two rows of    *)
(* the users table, run inside one database/sql transaction against        *)
(* PostgreSQL at its default isolation level (READ COMMITTED).             *)
(*                                                                         *)
(* Money is counted in units of 0.001, so that an amount finer than the    *)
(* column's two fractional digits can be written: one cent is Cent units.  *)
(* A stored balance is always a whole number of cents, because the column  *)
(* is DECIMAL(10,2) and the store rounds every value assigned to it.       *)
(***************************************************************************)
EXTENDS Integers, FiniteSets, Sequences, TLC

VARIABLES
    balance,        \* committed users.balance of every existing row
    pc,             \* where each caller stands in TransferBalance
    args,           \* fromID, toID, amount of the caller's current call
    senderBalance,  \* the local variable senderBalance of the call
    tx,             \* the state of the transaction the call opened
    pending,        \* the uncommitted row versions (and row locks) of the tx
    result,         \* the error the call returns ("nil" for success)
    installed,      \* the row versions the call has made visible to others
    nfaults,        \* infrastructure faults injected so far
    \* The /user route of the tiny-http service (practice 2):
    req,            \* the request being served
    hpc,            \* where the request stands in the middleware chain
    logLines,       \* what log.Printf has written, for every request so far
    reqLogged,      \* lines logged for the request being served
    handlerRan,     \* the code that ran behind the middleware for the request
    statusCode,     \* the response status written (0: none yet)
    body            \* the JSON object written as the response

vars == <<balance, pc, args, senderBalance, tx, pending, result, installed,
          nfaults>>

httpVars == <<req, hpc, logLines, reqLogged, handlerRan, statusCode, body>>

----------------------------------------------------------------------------
\* Bounds of the model.
MaxBalance == 1     \* initial balances range over 0 .. MaxBalance cents
MaxFaults == 1      \* statements that fail for infrastructure reasons
MaxRequests == 2    \* requests the /user route serves in one behaviour

\* One cent in the model's unit: the scale of DECIMAL(10,2).
Cent == 10

\* The rows of users that exist (the seed data) and an id with no row.
Accounts == {1, 2}
MissingID == 3
IDs == Accounts \cup {MissingID}

\* Amounts a caller may pass: negative, zero, half a cent, one cent.
Amounts == {-Cent, 0, Cent \div 2, Cent}

\* The goroutines that call TransferBalance on the shared *sqlx.DB, one call
\* each: the calls run one after the other or overlap, as scheduled.
Callers == {"c1", "c2"}

NoArgs == [from |-> MissingID, to |-> MissingID, amount |-> 0]
NoRows == [a \in {} |-> 0]

----------------------------------------------------------------------------
\* The store rounds a numeric value to the column's scale on assignment,
\* half away from zero.
NumericRound(x) ==
    IF x >= 0 THEN ((x + Cent \div 2) \div Cent) * Cent
              ELSE -(((-x + Cent \div 2) \div Cent) * Cent)

\* The comparison turned round, as a slip would write it.
InsufficientBalance_Reversed(bal, amount) == bal > amount

\* if senderBalance < amount
InsufficientBalance(bal, amount) == bal < amount

\* The row version caller p sees for id: its own uncommitted write, else the
\* latest committed one.
Visible(p, id) ==
    IF id \in DOMAIN pending[p] THEN pending[p][id] ELSE balance[id]

\* A row written by an open transaction is locked until that transaction ends.
LockedByOther(p, id) ==
    \E q \in Callers \ {p} : tx[q] = "open" /\ id \in DOMAIN pending[q]

\* UPDATE users SET balance = balance + delta WHERE id = id, as the write set
\* of p after the statement. A missing row matches nothing: no error, no write.
UpdateBalance(p, id, delta) ==
    IF id \in Accounts
    THEN [a \in DOMAIN pending[p] \cup {id} |->
            IF a = id THEN NumericRound(Visible(p, id) + delta)
                      ELSE pending[p][a]]
    ELSE pending[p]

\* The committed table after the transaction of p commits.
Committed(p) ==
    [a \in Accounts |-> IF a \in DOMAIN pending[p] THEN pending[p][a]
                                                    ELSE balance[a]]

----------------------------------------------------------------------------
\* The /user route: APIKeyMiddleware around the method switch of main.

\* if apiKey != "secret123"
APIKey == "secret123"

StatusOK == 200
StatusCreated == 201
StatusBadRequest == 400
StatusUnauthorized == 401
StatusMethodNotAllowed == 405

\* What a client may send: the method, the X-API-Key header ("" when absent),
\* the id query parameter and the JSON body (decodable or not, with its name).
Methods == {"GET", "POST", "DELETE"}
Keys == {"secret123", "", "Secret123"}
QueryIDs == {"", "abc", "0", "-1", "7"}
Bodies == {[valid |-> FALSE, name |-> ""], [valid |-> TRUE, name |-> ""],
           [valid |-> TRUE, name |-> "Alice"]}
Requests == [method : Methods, key : Keys, id : QueryIDs, json : Bodies]

NoRequest == [method |-> "GET", key |-> "", id |-> "",
              json |-> [valid |-> FALSE, name |-> ""]]
NoBody == [error |-> "", user_id |-> 0, created |-> ""]

\* strconv.Atoi on the id strings a client may send.
Atoi(str) ==
    CASE str = "7" -> [ok |-> TRUE, n |-> 7]
      [] str = "0" -> [ok |-> TRUE, n |-> 0]
      [] str = "-1" -> [ok |-> TRUE, n |-> -1]
      [] OTHER -> [ok |-> FALSE, n |-> 0]

HTTPInit ==
    /\ req = NoRequest
    /\ hpc = "idle"
    /\ logLines = << >>
    /\ reqLogged = 0
    /\ handlerRan = "none"
    /\ statusCode = 0
    /\ body = NoBody

\* jsonError / JSONError: the status and {"error": msg}.
JSONError(code, msg) ==
    /\ statusCode' = code
    /\ body' = [NoBody EXCEPT !.error = msg]

\* The server hands a request of the /user route to the middleware.
Receive(r) ==
    /\ hpc \in {"idle", "done"}
    /\ Len(logLines) < MaxRequests
    /\ req' = r
    /\ hpc' = "received"
    /\ reqLogged' = 0
    /\ handlerRan' = "none"
    /\ statusCode' = 0
    /\ body' = NoBody
    /\ UNCHANGED logLines

\* log.Printf("%s %s", r.Method, r.URL.Path)
LogRequest ==
    /\ hpc = "received"
    /\ logLines' = Append(logLines, <<req.method, "/user">>)
    /\ reqLogged' = reqLogged + 1
    /\ hpc' = "logged"
    /\ UNCHANGED <<req, handlerRan, statusCode, body>>

\* The key check let everything through.
Authorized_Always(key) == TRUE

\* apiKey := r.Header.Get("X-API-Key"); the request passes if apiKey is the key.
Authorized(key) == key = APIKey

\* if apiKey != "secret123" { jsonError(w, 401, "unauthorized"); return }
RejectKey ==
    /\ hpc = "logged"
    /\ ~Authorized(req.key)
    /\ JSONError(StatusUnauthorized, "unauthorized")
    /\ hpc' = "done"
    /\ UNCHANGED <<req, logLines, reqLogged, handlerRan>>

\* next.ServeHTTP(w, r)
ServeNext ==
    /\ hpc = "logged"
    /\ Authorized(req.key)
    /\ hpc' = "next"
    /\ UNCHANGED <<req, logLines, reqLogged, handlerRan, statusCode, body>>

\* case http.MethodGet: getUserHandler(w, r)
GetUser ==
    /\ hpc = "next" /\ req.method = "GET"
    /\ handlerRan' = "getUserHandler"
    /\ IF ~Atoi(req.id).ok \/ Atoi(req.id).n <= 0
       THEN JSONError(StatusBadRequest, "invalid id")
       ELSE /\ statusCode' = StatusOK
            /\ body' = [NoBody EXCEPT !.user_id = Atoi(req.id).n]
    /\ hpc' = "done"
    /\ UNCHANGED <<req, logLines, reqLogged>>

\* case http.MethodPost: postUserHandler(w, r)
PostUser ==
    /\ hpc = "next" /\ req.method = "POST"
    /\ handlerRan' = "postUserHandler"
    /\ IF ~req.json.valid \/ req.json.name = ""
       THEN JSONError(StatusBadRequest, "invalid name")
       ELSE /\ statusCode' = StatusCreated
            /\ body' = [NoBody EXCEPT !.created = req.json.name]
    /\ hpc' = "done"
    /\ UNCHANGED <<req, logLines, reqLogged>>

\* default: JSONError(w, http.StatusMethodNotAllowed, "method not allowed")
MethodNotAllowed ==
    /\ hpc = "next" /\ req.method \notin {"GET", "POST"}
    /\ handlerRan' = "methodNotAllowed"
    /\ JSONError(StatusMethodNotAllowed, "method not allowed")
    /\ hpc' = "done"
    /\ UNCHANGED <<req, logLines, reqLogged>>

\* The transfer variables, at rest while the route is looked at.
TransferAtRest ==
    /\ balance = [a \in Accounts |-> 0]
    /\ pc = [p \in Callers |-> "idle"]
    /\ args = [p \in Callers |-> NoArgs]
    /\ senderBalance = [p \in Callers |-> 0]
    /\ tx = [p \in Callers |-> "none"]
    /\ pending = [p \in Callers |-> NoRows]
    /\ result = [p \in Callers |-> "none"]
    /\ installed = [p \in Callers |-> NoRows]
    /\ nfaults = 0

InitHTTP == TransferAtRest /\ HTTPInit

\* A step of the /user route; no transfer runs in this service.
NextHTTP ==
    \/ (\E r \in Requests : Receive(r)) /\ UNCHANGED vars
    \/ LogRequest /\ UNCHANGED vars
    \/ RejectKey /\ UNCHANGED vars
    \/ ServeNext /\ UNCHANGED vars
    \/ GetUser /\ UNCHANGED vars
    \/ PostUser /\ UNCHANGED vars
    \/ MethodNotAllowed /\ UNCHANGED vars

SpecHTTP == InitHTTP /\ [][NextHTTP]_<<vars, httpVars>>

----------------------------------------------------------------------------
Init ==
    /\ balance \in [Accounts -> {b * Cent : b \in 0..MaxBalance}]
    /\ pc = [p \in Callers |-> "idle"]
    /\ args = [p \in Callers |-> NoArgs]
    /\ senderBalance = [p \in Callers |-> 0]
    /\ tx = [p \in Callers |-> "none"]
    /\ pending = [p \in Callers |-> NoRows]
    /\ result = [p \in Callers |-> "none"]
    /\ installed = [p \in Callers |-> NoRows]
    /\ nfaults = 0
    /\ HTTPInit

\* The entry of TransferBalance(db, fromID, toID, amount).
Enter(p, from, to, amount) ==
    /\ pc[p] = "idle"
    /\ args' = [args EXCEPT ![p] = [from |-> from, to |-> to, amount |-> amount]]
    /\ UNCHANGED <<balance, senderBalance, pending, installed>>

\* tx, err := db.Beginx() succeeds; defer tx.Rollback() is registered.
Begin(p) ==
    \E from \in IDs, to \in IDs, amount \in Amounts :
        /\ Enter(p, from, to, amount)
        /\ tx' = [tx EXCEPT ![p] = "open"]
        /\ result' = [result EXCEPT ![p] = "none"]
        /\ pc' = [pc EXCEPT ![p] = "get"]
        /\ UNCHANGED nfaults

\* db.Beginx() fails: return "failed to begin transaction", nothing deferred.
BeginFails(p) ==
    \E from \in IDs, to \in IDs, amount \in Amounts :
        /\ Enter(p, from, to, amount)
        /\ nfaults < MaxFaults
        /\ nfaults' = nfaults + 1
        /\ tx' = [tx EXCEPT ![p] = "none"]
        /\ result' = [result EXCEPT ![p] = "begin failed"]
        /\ pc' = [pc EXCEPT ![p] = "returned"]

\* A statement of the call fails: the error is returned through the deferred
\* rollback. The transaction stays open, with its locks, until that rollback.
Fail(p, err) ==
    /\ result' = [result EXCEPT ![p] = err]
    /\ pc' = [pc EXCEPT ![p] = "defer"]

\* The read as it would be if a missing row were not an error: senderBalance
\* keeps its zero value and the check runs on it.
GetSenderBalance_MissingRowIsZero(p) ==
    /\ pc[p] = "get"
    /\ senderBalance' =
          [senderBalance EXCEPT
             ![p] = IF args[p].from \in Accounts
                    THEN balance[args[p].from] ELSE 0]
    /\ IF senderBalance'[p] < args[p].amount
       THEN Fail(p, "insufficient balance")
       ELSE /\ pc' = [pc EXCEPT ![p] = "debit"]
            /\ UNCHANGED result
    /\ UNCHANGED <<balance, args, tx, pending, installed, nfaults>>

\* tx.Get(&senderBalance, SELECT balance ...) and the sufficient-balance check.
GetSenderBalance(p) ==
    /\ pc[p] = "get"
    /\ IF args[p].from \notin Accounts
       THEN /\ Fail(p, "get sender balance failed: no rows")
            /\ UNCHANGED senderBalance
       ELSE /\ senderBalance' =
                  [senderBalance EXCEPT ![p] = Visible(p, args[p].from)]
            /\ IF InsufficientBalance(senderBalance'[p], args[p].amount)
               THEN Fail(p, "insufficient balance")
               ELSE /\ pc' = [pc EXCEPT ![p] = "debit"]
                    /\ UNCHANGED result
    /\ UNCHANGED <<balance, args, tx, pending, installed, nfaults>>

\* tx.Get fails for a reason other than a missing row.
GetFails(p) ==
    /\ pc[p] = "get"
    /\ nfaults < MaxFaults
    /\ nfaults' = nfaults + 1
    /\ Fail(p, "get sender balance failed")
    /\ UNCHANGED <<balance, args, senderBalance, tx, pending, installed>>

\* UPDATE users SET balance = balance - $1 WHERE id = $2 (amount, fromID).
\* The statement waits while another transaction holds the row.
DecreaseSender(p) ==
    /\ pc[p] = "debit"
    /\ ~LockedByOther(p, args[p].from)
    /\ pending' = [pending EXCEPT
                     ![p] = UpdateBalance(p, args[p].from, -args[p].amount)]
    /\ pc' = [pc EXCEPT ![p] = "credit"]
    /\ UNCHANGED <<balance, args, senderBalance, tx, result, installed,
                   nfaults>>

DecreaseFails(p) ==
    /\ pc[p] = "debit"
    /\ nfaults < MaxFaults
    /\ nfaults' = nfaults + 1
    /\ Fail(p, "decrease sender balance failed")
    /\ UNCHANGED <<balance, args, senderBalance, tx, pending, installed>>

\* UPDATE users SET balance = balance + $1 WHERE id = $2 (amount, toID).
IncreaseReceiver(p) ==
    /\ pc[p] = "credit"
    /\ ~LockedByOther(p, args[p].to)
    /\ pending' = [pending EXCEPT
                     ![p] = UpdateBalance(p, args[p].to, args[p].amount)]
    /\ pc' = [pc EXCEPT ![p] = "commit"]
    /\ UNCHANGED <<balance, args, senderBalance, tx, result, installed,
                   nfaults>>

IncreaseFails(p) ==
    /\ pc[p] = "credit"
    /\ nfaults < MaxFaults
    /\ nfaults' = nfaults + 1
    /\ Fail(p, "increase receiver balance failed")
    /\ UNCHANGED <<balance, args, senderBalance, tx, pending, installed>>

\* p waits for a row of q while q waits for a row of p: the store detects the
\* deadlock and fails the statement of one of them.
WaitsFor(p, q) ==
    /\ pc[p] = "credit" /\ tx[q] = "open"
    /\ args[p].to \in DOMAIN pending[q]

IncreaseDeadlocks(p) ==
    /\ \E q \in Callers \ {p} : WaitsFor(p, q) /\ WaitsFor(q, p)
    /\ Fail(p, "increase receiver balance failed")
    /\ UNCHANGED <<balance, args, senderBalance, tx, pending, installed,
                   nfaults>>

\* tx.Commit() succeeds: the write set becomes the committed rows, at once.
Commit(p) ==
    /\ pc[p] = "commit"
    /\ balance' = Committed(p)
    /\ installed' = [installed EXCEPT ![p] = pending[p]]
    /\ pending' = [pending EXCEPT ![p] = NoRows]
    /\ tx' = [tx EXCEPT ![p] = "committed"]
    /\ result' = [result EXCEPT ![p] = "nil"]
    /\ pc' = [pc EXCEPT ![p] = "defer"]
    /\ UNCHANGED <<args, senderBalance, nfaults>>

\* A failed commit as it would be if the store kept the writes all the same.
CommitFails_KeepsWrites(p) ==
    /\ pc[p] = "commit"
    /\ nfaults < MaxFaults
    /\ nfaults' = nfaults + 1
    /\ balance' = [a \in Accounts |->
                     IF a \in DOMAIN pending[p] THEN pending[p][a] ELSE balance[a]]
    /\ pending' = [pending EXCEPT ![p] = << >>]
    /\ tx' = [tx EXCEPT ![p] = "rolledback"]
    /\ Fail(p, "commit failed")
    /\ UNCHANGED <<args, senderBalance, installed>>

\* tx.Commit() fails: the store aborts the transaction and database/sql marks
\* the handle done.
CommitFails(p) ==
    /\ pc[p] = "commit"
    /\ nfaults < MaxFaults
    /\ nfaults' = nfaults + 1
    /\ pending' = [pending EXCEPT ![p] = NoRows]
    /\ tx' = [tx EXCEPT ![p] = "rolledback"]
    /\ Fail(p, "commit failed")
    /\ UNCHANGED <<balance, args, senderBalance, installed>>

\* The deferred rollback left out: the handle stays as the call left it.
RollbackTx_Skipped(status) == status

\* The handle after the deferred tx.Rollback(): an open transaction is rolled
\* back, a finished one is left as it is (ErrTxDone, ignored).
RollbackTx(status) == IF status = "open" THEN "rolledback" ELSE status

\* defer tx.Rollback(), run as the call returns.
DeferredRollback(p) ==
    /\ pc[p] = "defer"
    /\ tx' = [tx EXCEPT ![p] = RollbackTx(tx[p])]
    /\ pending' = [pending EXCEPT ![p] = NoRows]
    /\ pc' = [pc EXCEPT ![p] = "returned"]
    /\ UNCHANGED <<balance, args, senderBalance, result, installed,
                   nfaults>>

\* A step of a call of TransferBalance; the /user route is another program.
Next ==
    \E p \in Callers :
        \/ Begin(p) /\ UNCHANGED httpVars
        \/ BeginFails(p) /\ UNCHANGED httpVars
        \/ GetSenderBalance(p) /\ UNCHANGED httpVars
        \/ GetFails(p) /\ UNCHANGED httpVars
        \/ DecreaseSender(p) /\ UNCHANGED httpVars
        \/ DecreaseFails(p) /\ UNCHANGED httpVars
        \/ IncreaseReceiver(p) /\ UNCHANGED httpVars
        \/ IncreaseFails(p) /\ UNCHANGED httpVars
        \/ IncreaseDeadlocks(p) /\ UNCHANGED httpVars
        \/ Commit(p) /\ UNCHANGED httpVars
        \/ CommitFails(p) /\ UNCHANGED httpVars
        \/ DeferredRollback(p) /\ UNCHANGED httpVars

Spec == Init /\ [][Next]_<<vars, httpVars>>

----------------------------------------------------------------------------
\* What the claims speak of.

\* The call of p returned (its deferred rollback has run, if one was deferred).
Returned(p) == pc[p] = "returned"

\* The call of p returned an error.
Failed(p) == result[p] \notin {"none", "nil"}

\* An amount the column can hold exactly: a positive whole number of cents.
PositiveCents(x) == x > 0 /\ x % Cent = 0

\* The step is the successful tx.Commit() of caller p.
CommitStep(p) == pc[p] = "commit" /\ result'[p] = "nil"

\* C1: every transfer between existing (and, read in the claim's favour,
\* distinct) accounts that commits takes exactly amount from the sender, adds
\* exactly amount to the receiver and keeps the sum of the two balances.
C1_TransferConserves ==
    [][\A p \in Callers :
          (/\ CommitStep(p)
           /\ args[p].from \in Accounts /\ args[p].to \in Accounts
           /\ args[p].from # args[p].to
           /\ senderBalance[p] >= args[p].amount)
          => /\ balance'[args[p].from] = balance[args[p].from] - args[p].amount
             /\ balance'[args[p].to] = balance[args[p].to] + args[p].amount
             /\ balance'[args[p].from] + balance'[args[p].to]
                  = balance[args[p].from] + balance[args[p].to]]_vars

\* The call of p read the sender's balance inside its transaction.
ReadDone(p) ==
    \/ pc[p] \in {"debit", "credit", "commit"}
    \/ /\ pc[p] \in {"defer", "returned"}
       /\ result[p] \notin {"begin failed", "get sender balance failed",
                            "get sender balance failed: no rows"}

\* C2: a call whose amount is greater than the sender's balance it read returns
\* the insufficient-balance error, has written no row inside its transaction
\* and has changed no committed balance.
C2_InsufficientFundsNoWrite ==
    \A p \in Callers :
        (ReadDone(p) /\ args[p].amount > senderBalance[p])
        => /\ result[p] = "insufficient balance"
           /\ pc[p] \in {"defer", "returned"}
           /\ pending[p] = NoRows
           /\ installed[p] = NoRows

\* A call that read a balance smaller than its amount has returned.
C2_Witness ==
    \E p \in Callers :
        /\ Returned(p) /\ result[p] = "insufficient balance"
        /\ args[p].amount > senderBalance[p]
        /\ args[p].to \in Accounts

\* C3: a call that returns an error of any kind has made no row version
\* visible, and the step in which it fails leaves every committed balance as
\* it was; in particular a debit applied before a failed credit is never seen.
C3_FailedCallChangesNothing ==
    [][\A p \in Callers :
          Failed(p)' => /\ installed'[p] = NoRows
                        /\ (~Failed(p) => balance' = balance)
                        /\ (pc'[p] = "returned" => pending'[p] = NoRows)]_vars

\* The credit failed after the debit was applied inside the transaction.
C3_Witness ==
    \E p \in Callers :
        /\ pc[p] = "defer" /\ result[p] = "increase receiver balance failed"
        /\ args[p].from \in DOMAIN pending[p]
        /\ pending[p][args[p].from] # balance[args[p].from]

\* C4: every committed balance is >= 0 in every state, whatever calls ran.
C4_BalanceNonNegative == \A a \in Accounts : balance[a] >= 0

\* C5: when every transfer called has a positive amount (of whole cents, to
\* leave rounding out of it), a transfer that
\* commits never takes the sender's committed balance from non-negative to
\* negative, however the reads, updates and commits of the calls interleave.
C5_NoOverdraftUnderConcurrency ==
    [][\A p \in Callers :
          (/\ CommitStep(p)
           /\ \A q \in Callers : pc[q] = "idle" \/ PositiveCents(args[q].amount)
           /\ args[p].from \in Accounts
           /\ balance[args[p].from] >= 0)
          => balance'[args[p].from] >= 0]_vars

\* C6: a call with a zero or negative amount fails with an invalid-amount error
\* before any store access: it opens no transaction and reads no balance.
C6_InvalidAmountRejected ==
    \A p \in Callers :
        (pc[p] # "idle" /\ args[p].amount <= 0)
        => /\ result[p] = "invalid amount"
           /\ tx[p] = "none"
           /\ pc[p] = "returned"

\* C7: a call (for a positive amount of whole cents) whose sender exists and
\* whose receiver does not never returns success and never debits the sender.
C7_MissingReceiverFails ==
    \A p \in Callers :
        (/\ pc[p] \in {"defer", "returned"}
         /\ args[p].from \in Accounts /\ args[p].to \notin Accounts
         /\ PositiveCents(args[p].amount))
        => /\ result[p] # "nil"
           /\ installed[p] = NoRows

\* C8: a call whose sender does not exist never gets past the balance read; it
\* fails there with the no-rows error (or earlier, when the store itself
\* fails), never with insufficient funds and never with success, and it writes
\* and changes nothing.
C8_MissingSenderFails ==
    \A p \in Callers :
        (pc[p] # "idle" /\ args[p].from \notin Accounts)
        => /\ pc[p] \in {"get", "defer", "returned"}
           /\ pc[p] # "get" =>
                result[p] \in {"get sender balance failed: no rows",
                               "get sender balance failed", "begin failed"}
           /\ (pc[p] # "get" /\ nfaults = 0) =>
                result[p] = "get sender balance failed: no rows"
           /\ pending[p] = NoRows
           /\ installed[p] = NoRows

\* A call with a missing sender and an existing receiver has returned.
C8_Witness ==
    \E p \in Callers :
        /\ Returned(p)
        /\ args[p].from \notin Accounts /\ args[p].to \in Accounts
        /\ args[p].amount > 0
        /\ result[p] = "get sender balance failed: no rows"

\* C9: whenever a transfer of a positive amount of whole cents from an account
\* to another id changes the committed table, a reader sees the sender's debit
\* and the receiver's credit together; and no other step changes the table.
C9_DebitAndCreditVisibleTogether ==
    [][/\ balance' # balance => \E p \in Callers : CommitStep(p)
       /\ \A p \in Callers :
            (/\ CommitStep(p)
             /\ PositiveCents(args[p].amount)
             /\ args[p].from \in Accounts
             /\ args[p].from # args[p].to)
            => (balance'[args[p].from] < balance[args[p].from]
                <=> /\ args[p].to \in Accounts
                    /\ balance'[args[p].to] > balance[args[p].to])]_vars

\* C10: when a call returns, the transaction it opened is closed (committed
\* or rolled back) and holds no row; a call that returns nil leaves its
\* transaction committed, not rolled back by the deferred rollback.
C10_TransactionClosedOnReturn ==
    \A p \in Callers :
        Returned(p)
        => /\ tx[p] = (IF result[p] = "begin failed" THEN "none"
                       ELSE IF result[p] = "nil" THEN "committed"
                       ELSE "rolledback")
           /\ pending[p] = NoRows
           /\ (result[p] = "nil" =>
                 \A a \in DOMAIN installed[p] :
                    \/ balance[a] = installed[p][a]
                    \/ \E q \in Callers \ {p} : a \in DOMAIN installed[q])

\* A call returned an error after writing a row, and a call returned nil.
C10_Witness ==
    /\ \E p \in Callers :
          /\ Returned(p) /\ result[p] = "increase receiver balance failed"
          /\ tx[p] = "rolledback"
    /\ \E p \in Callers :
          /\ Returned(p) /\ result[p] = "nil" /\ installed[p] # NoRows

\* What account a gains by a transfer of p that commits: the amount if it is
\* the receiver, less the amount if it is the sender.
NetTransfer(p, a) ==
    (IF a = args[p].to THEN args[p].amount ELSE 0)
    - (IF a = args[p].from THEN args[p].amount ELSE 0)

\* C11: the committed table changes only when a transfer commits, and a
\* transfer of a positive amount between existing accounts that commits leaves
\* every account at its committed balance plus what the transfer moves into it
\* minus what it moves out of it, so that the total is kept; by induction the
\* final balances are the initial ones plus the committed transfers, whatever
\* the interleaving.
C11_NoLostUpdates ==
    [][/\ balance' # balance => \E p \in Callers : CommitStep(p)
       /\ \A p \in Callers :
            (/\ CommitStep(p)
             /\ args[p].amount > 0
             /\ args[p].from \in Accounts /\ args[p].to \in Accounts)
            => \A a \in Accounts :
                  balance'[a] = balance[a] + NetTransfer(p, a)]_vars

\* C12: a call with the sender as the receiver that read a balance smaller
\* than its amount fails with the insufficient-balance error, and one that
\* commits leaves the committed balance of the account as it was.
C12_SelfTransferNetZero ==
    [][\A p \in Callers :
          (pc'[p] # "idle" /\ args'[p].from = args'[p].to
           /\ args'[p].from \in Accounts)
          => /\ (ReadDone(p)' /\ args'[p].amount > senderBalance'[p])
                  => result'[p] = "insufficient balance"
             /\ CommitStep(p) => balance' = balance]_vars

\* C13: on the /user route the code behind the middleware runs if and only
\* if the X-API-Key header is the configured key; a request with any other key
\* ends with 401 and {"error": "unauthorized"}; and every request is logged
\* exactly once, before the key is looked at and before anything is written.
C13_APIKeyProtectsUserRoute ==
    /\ handlerRan # "none" => req.key = APIKey
    /\ hpc = "next" => req.key = APIKey
    /\ hpc = "done" =>
         /\ handlerRan # "none" <=> req.key = APIKey
         /\ req.key = APIKey =>
              handlerRan = (CASE req.method = "GET" -> "getUserHandler"
                              [] req.method = "POST" -> "postUserHandler"
                              [] OTHER -> "methodNotAllowed")
         /\ req.key # APIKey =>
              /\ statusCode = StatusUnauthorized
              /\ body = [NoBody EXCEPT !.error = "unauthorized"]
    /\ hpc \in {"logged", "next", "done"} =>
         /\ reqLogged = 1
         /\ logLines[Len(logLines)] = <<req.method, "/user">>
    /\ hpc \in {"received", "logged"} =>
         /\ statusCode = 0 /\ handlerRan = "none"
         /\ reqLogged = (IF hpc = "logged" THEN 1 ELSE 0)

\* A second request, with a key that differs from the configured one only in
\* case, was answered 401 after a first one got through to postUserHandler.
C13_Witness ==
    /\ hpc = "done" /\ Len(logLines) = 2
    /\ logLines[1] = <<"POST", "/user">>
    /\ req.key = "Secret123" /\ req.method = "GET"
    /\ statusCode = StatusUnauthorized /\ handlerRan = "none"

====
